---- MODULE Spec2Model ----
(***************************************************************************)
(* A model of the 6502 core of nes-emulator: src/src/cpu/mod.rs (the Cpu,  *)
(* its registers, the fetch-execute loop, the addressing resolver, ADC and *)
(* JMP) and src/src/cpu/instruction.rs (the opcode decoder).               *)
(*                                                                         *)
(* Four specifications share the variables:                                *)
(*   Spec        the Cpu constructed over a memory image and run by        *)
(*               start();                                                  *)
(*   SpecLive    Spec with the loop's step weakly fair;                    *)
(*   SpecDecode  Spec over the images with each opcode byte at the reset   *)
(*               address;                                                  *)
(*   SpecUnit    one call of a Cpu or StatusFlags method on a Cpu whose    *)
(*               registers and arguments are drawn from sample sets.       *)
(*                                                                         *)
(* Rust's integer `+` panics on overflow when the build has overflow       *)
(* checks (debug profile) and wraps when it has not (release profile); the *)
(* variable overflow_checks is the build's choice, fixed for a behaviour.  *)
(* unimplemented!(), unwrap() on None and an index out of bounds panic in  *)
(* every build.                                                            *)
(***************************************************************************)
EXTENDS Integers, Sequences, FiniteSets, TLC

VARIABLES
    bus,              \* Cpu.bus: [mem: address -> byte (sparse), bad: addresses whose 16-bit read fails]
    registers,        \* Cpu.registers: [a, x, y, s, p, pc]
    vectors,          \* Cpu.vectors: [nmi, reset, irq]
    state,            \* "Unconstructed" | "Running" | "Halted" | "Failed" | "Panicked"
    fetched,          \* start()'s `instruction`: None at the loop head, Some(i) before process_instruction
    overflow_checks,  \* the build: TRUE when `+` panics on overflow, FALSE when it wraps
    call,             \* the last method called, its arguments and the registers at its entry
    result            \* what that call returned: Ok(v) | Err(msg) | Panic(msg)

vars == <<bus, registers, vectors, state, fetched, overflow_checks, call, result>>

----------------------------------------------------------------------------
(* Bounds of the model *)

\* sampled bytes lie within SampleWidth of 0x00, 0x80 and 0xFF
SampleWidth == 1
\* number of program bytes an image places at its reset vector
MaxProg == 3

----------------------------------------------------------------------------
(* Program constants *)

ADDRESS_NMI == 65530
ADDRESS_RESET == 65532
ADDRESS_IRQ == 65534

NEGATIVE == 128
OVERFLOW == 64
BREAK_LEFT == 32
BREAK_RIGHT == 16
DECIMAL == 8
INTERRUPT_DISABLE == 4
ZERO == 2
CARRY == 1

\* cpu/opcodes.rs: the 6502's opcode bytes
ADC_IMMEDIATE == 105
ASL_ACCUMULATOR == 10
ASL_ZERO_PAGE_X == 22
CLC_IMPLIED == 24
CLD_IMPLIED == 216
CLI_IMPLIED == 88
CLV_IMPLIED == 184
INX_IMPLIED == 232
INY_IMPLIED == 200
LDA_ABSOLUTE == 173
LDX_IMMEDIATE == 162
NOP_IMPLIED == 234
SEC_IMPLIED == 56
SED_IMPLIED == 248
SEI_IMPLIED == 120
TAX_IMPLIED == 170
TAY_IMPLIED == 168
TXA_IMPLIED == 138
TYA_IMPLIED == 152

U8 == 256
U16 == 65536

\* the values of a u8
Byte == 0 .. (U8 - 1)

----------------------------------------------------------------------------
(* Option and Result *)

None == <<>>
Some(v) == <<v>>
IsSome(o) == Len(o) = 1
Unwrapped(o) == o[1]

Ok(v) == [tag |-> "Ok", val |-> v, msg |-> ""]
Err(m) == [tag |-> "Err", val |-> None, msg |-> m]
Panic(m) == [tag |-> "Panic", val |-> None, msg |-> m]
IsOk(r) == r.tag = "Ok"
\* `?`: on Ok go on with the value, else return the failure. A method that
\* reads `let v = f(..)?; rest` is written Bind(f(..), LAMBDA v : rest).
Bind(r, F(_)) == IF IsOk(r) THEN F(r.val) ELSE r

MSG_NOT_IMPLEMENTED == "not implemented"
MSG_NO_INSTRUCTION == "not implemented: no instruction found for opcode"
MSG_LOCATION_RELATIVE == "not implemented: determine location | Relative"
MSG_INPUT_ACCUMULATOR == "invalid input byte mode: Accumulator"
MSG_INPUT_RELATIVE == "invalid input byte mode: Relative"
MSG_NO_ADDRESS == "no address found in input location"
MSG_NO_LOCATION == "no input location found"
MSG_ADD_OVERFLOW == "attempt to add with overflow"
MSG_INDEX == "index out of bounds"
MSG_UNWRAP_NONE == "called Option::unwrap on a None value"
MSG_BUS == "bus read failed"

----------------------------------------------------------------------------
(* Integer arithmetic of the build *)

\* u8 + u8
add_u8(l, r) ==
    IF l + r >= U8 /\ overflow_checks THEN Panic(MSG_ADD_OVERFLOW)
    ELSE Ok((l + r) % U8)

\* u16 + u16
add_u16(l, r) ==
    IF l + r >= U16 /\ overflow_checks THEN Panic(MSG_ADD_OVERFLOW)
    ELSE Ok((l + r) % U16)

wrapping_add(l, r) == (l + r) % U8

from_le_bytes(lo, hi) == lo + 256 * hi

\* bytes[i] of a slice (0-based in the source)
index(bytes, i) ==
    IF i < Len(bytes) THEN Ok(bytes[i + 1]) ELSE Panic(MSG_INDEX)

\* BitRead::read_bit / BitRead::is_bit_set
read_bit(value, n) == (value \div (2 ^ n)) % 2
is_bit_set(value, n) == read_bit(value, n) = 1

----------------------------------------------------------------------------
(* StatusFlags: a bitflags! set over one byte; flag is one of the masks *)

contains(p, flag) == (p \div flag) % 2 = 1
insert(p, flag) == IF contains(p, flag) THEN p ELSE p + flag
remove(p, flag) == IF contains(p, flag) THEN p - flag ELSE p
set(p, flag, value) == IF value THEN insert(p, flag) ELSE remove(p, flag)
\* (p & flag).bits()
and_bits(p, flag) == IF contains(p, flag) THEN flag ELSE 0
StatusFlags_empty == 0

BreakType == {"Internal", "Instruction"}

\* set_break with Instruction treated as Internal
set_break_both(p, break_type) == insert(insert(p, BREAK_LEFT), BREAK_RIGHT)

\* StatusFlags::set_break(&mut self, break_type): the flags it leaves
set_break(p, break_type) ==
    CASE break_type = "Internal"    -> insert(insert(p, BREAK_LEFT), BREAK_RIGHT)
      [] break_type = "Instruction" -> remove(insert(p, BREAK_LEFT), BREAK_RIGHT)

\* StatusFlags::clear_break(&mut self): the flags it leaves
clear_break(p) == remove(remove(p, BREAK_LEFT), BREAK_RIGHT)

----------------------------------------------------------------------------
(* Bus: the memory the Cpu reads *)

Fill == 0

read(b, address) ==
    IF address \in DOMAIN b.mem THEN b.mem[address] ELSE Fill

read_n(b, address, count) ==
    [i \in 1 .. count |-> read(b, (address + i - 1) % U16)]

read_u16(b, address) ==
    IF address \in b.bad THEN Err(MSG_BUS)
    ELSE Ok(from_le_bytes(read(b, address), read(b, (address + 1) % U16)))

read_zp_u16(b, address) ==
    IF address \in b.bad THEN Err(MSG_BUS)
    ELSE Ok(from_le_bytes(read(b, address), read(b, (address + 1) % U8)))

----------------------------------------------------------------------------
(* instruction.rs: the decoder *)

\* Instruction with len and cycles_base taken from each other's argument
Instruction_swapped(opcode, operation, mode, len, cycles_base) ==
    [opcode |-> opcode, operation |-> operation, mode |-> mode,
     len |-> cycles_base, cycles_base |-> len]

Instruction(opcode, operation, mode, len, cycles_base) ==
    [opcode |-> opcode, operation |-> operation, mode |-> mode,
     len |-> len, cycles_base |-> cycles_base]

InstructionMode ==
    {"Implied", "Accumulator", "Immediate", "Relative", "ZeroPage", "ZeroPageX",
     "ZeroPageY", "Absolute", "AbsoluteX", "AbsoluteY", "Indirect", "IndirectX",
     "IndirectY"}

InstructionOperation ==
    {"Adc", "And", "Asl", "Bcc", "Bcs", "Beq", "Bit", "Bmi", "Bne", "Bpl", "Brk",
     "Bvc", "Bvs", "Clc", "Cld", "Cli", "Clv", "Cmp", "Cpx", "Cpy", "Dec", "Dex",
     "Dey", "Eor", "Inc", "Inx", "Iny", "Jmp", "Jsr", "Lda", "Ldx", "Ldy", "Lsr",
     "Nop", "Ora", "Pha", "Php", "Pla", "Plp", "Rol", "Ror", "Rti", "Rts", "Sbc",
     "Sec", "Sed", "Sei", "Sta", "Stx", "Sty", "Tax", "Tay", "Tsx", "Txa", "Txs",
     "Tya"}

\* the opcodes match_opcode! has an arm for
KnownOpcodes ==
    {ADC_IMMEDIATE, ASL_ACCUMULATOR, ASL_ZERO_PAGE_X, CLC_IMPLIED, CLD_IMPLIED,
     CLI_IMPLIED, CLV_IMPLIED, INX_IMPLIED, INY_IMPLIED, LDA_ABSOLUTE,
     LDX_IMMEDIATE, NOP_IMPLIED, SEC_IMPLIED, SED_IMPLIED, SEI_IMPLIED,
     TAX_IMPLIED, TAY_IMPLIED, TXA_IMPLIED, TYA_IMPLIED}

\* the arm of match_opcode! that is not an opcode of the table
match_opcode_fallback(opcode) == Panic(MSG_NO_INSTRUCTION)

\* Instruction::from_opcode: Ok(the instruction), or the panic of the last arm
from_opcode(opcode) ==
    CASE opcode = ADC_IMMEDIATE   -> Ok(Instruction(opcode, "Adc", "Immediate", 2, 2))
      [] opcode = ASL_ACCUMULATOR -> Ok(Instruction(opcode, "Asl", "Accumulator", 1, 2))
      [] opcode = ASL_ZERO_PAGE_X -> Ok(Instruction(opcode, "Asl", "ZeroPageX", 2, 6))
      [] opcode = CLC_IMPLIED     -> Ok(Instruction(opcode, "Clc", "Implied", 1, 2))
      [] opcode = CLD_IMPLIED     -> Ok(Instruction(opcode, "Cld", "Implied", 1, 2))
      [] opcode = CLI_IMPLIED     -> Ok(Instruction(opcode, "Cli", "Implied", 1, 2))
      [] opcode = CLV_IMPLIED     -> Ok(Instruction(opcode, "Clv", "Implied", 1, 2))
      [] opcode = INX_IMPLIED     -> Ok(Instruction(opcode, "Inx", "Implied", 1, 2))
      [] opcode = INY_IMPLIED     -> Ok(Instruction(opcode, "Iny", "Implied", 1, 2))
      [] opcode = LDA_ABSOLUTE    -> Ok(Instruction(opcode, "Lda", "Absolute", 3, 4))
      [] opcode = LDX_IMMEDIATE   -> Ok(Instruction(opcode, "Ldx", "Immediate", 2, 2))
      [] opcode = NOP_IMPLIED     -> Ok(Instruction(opcode, "Nop", "Implied", 1, 2))
      [] opcode = SEC_IMPLIED     -> Ok(Instruction(opcode, "Sec", "Implied", 1, 2))
      [] opcode = SED_IMPLIED     -> Ok(Instruction(opcode, "Sed", "Implied", 1, 2))
      [] opcode = SEI_IMPLIED     -> Ok(Instruction(opcode, "Sei", "Implied", 1, 2))
      [] opcode = TAX_IMPLIED     -> Ok(Instruction(opcode, "Tax", "Implied", 1, 2))
      [] opcode = TAY_IMPLIED     -> Ok(Instruction(opcode, "Tay", "Implied", 1, 2))
      [] opcode = TXA_IMPLIED     -> Ok(Instruction(opcode, "Txa", "Implied", 1, 2))
      [] opcode = TYA_IMPLIED     -> Ok(Instruction(opcode, "Tya", "Implied", 1, 2))
      [] OTHER                    -> match_opcode_fallback(opcode)

----------------------------------------------------------------------------
(* mod.rs: registers, locations *)

RegisterSet_new ==
    [a |-> 0, x |-> 0, y |-> 0, s |-> 255, p |-> StatusFlags_empty, pc |-> 0]

Location_Accumulator == [kind |-> "Accumulator", address |-> 0]
Location_Address(address) == [kind |-> "Address", address |-> address]

\* `self` of a Cpu method
Cpu(b, r, v) == [bus |-> b, registers |-> r, vectors |-> v]

----------------------------------------------------------------------------
(* mod.rs: the addressing resolver. self is a Cpu; the methods take &self. *)

\* ZeroPageX / ZeroPageY: (bytes[0] + index register) as Address
resolve_zero_page_indexed(bytes, r) ==
    Bind(index(bytes, 0), LAMBDA b0 :
    Bind(add_u8(b0, r), LAMBDA address :
    Ok(Some(Location_Address(address)))))

\* Absolute: u16::from_le_bytes([bytes[0], bytes[1]])
resolve_absolute(bytes) ==
    Bind(index(bytes, 0), LAMBDA b0 :
    Bind(index(bytes, 1), LAMBDA b1 :
    Ok(from_le_bytes(b0, b1))))

\* AbsoluteX / AbsoluteY: from_le_bytes(..) + index register as Address
resolve_absolute_indexed(bytes, r) ==
    Bind(resolve_absolute(bytes), LAMBDA base :
    Bind(add_u16(base, r), LAMBDA address :
    Ok(Some(Location_Address(address)))))

resolve_indirect(self, bytes) ==
    Bind(resolve_absolute(bytes), LAMBDA address_first :
    Bind(read_u16(self.bus, address_first), LAMBDA address_second :
    Ok(Some(Location_Address(address_second)))))

\* the pointer read of IndirectX with a failed read taken as 0: unwrap_or(0) for `?`
read_pointer_or_zero(b, pointer) ==
    IF IsOk(read_zp_u16(b, pointer)) THEN read_zp_u16(b, pointer).val ELSE 0

\* resolve_indirect_x swallowing the failure of the bus read
resolve_indirect_x_lenient(self, bytes) ==
    Bind(index(bytes, 0), LAMBDA b0 :
    Ok(Some(Location_Address(
        read_pointer_or_zero(self.bus, wrapping_add(b0, self.registers.x))))))

resolve_indirect_x(self, bytes) ==
    Bind(index(bytes, 0), LAMBDA b0 :
    Bind(read_zp_u16(self.bus, wrapping_add(b0, self.registers.x)),
         LAMBDA address_second :
    Ok(Some(Location_Address(address_second)))))

resolve_indirect_y(self, bytes) ==
    Bind(index(bytes, 0), LAMBDA b0 :
    Bind(read_zp_u16(self.bus, b0), LAMBDA address_first :
    Bind(add_u16(address_first, self.registers.y), LAMBDA address_second :
    Ok(Some(Location_Address(address_second))))))

\* the Relative arm of resolve_location_by_mode
resolve_relative == Panic(MSG_LOCATION_RELATIVE)

\* Cpu::resolve_location_by_mode -> Result<Option<Location>>
resolve_location_by_mode(self, mode, bytes) ==
    CASE mode = "Implied"     -> Ok(None)
      [] mode = "Accumulator" -> Ok(Some(Location_Accumulator))
      [] mode = "Immediate"   -> Ok(None)
      [] mode = "Relative"    -> resolve_relative
      [] mode = "ZeroPage"    ->
            Bind(index(bytes, 0), LAMBDA b0 : Ok(Some(Location_Address(b0))))
      [] mode = "ZeroPageX"   -> resolve_zero_page_indexed(bytes, self.registers.x)
      [] mode = "ZeroPageY"   -> resolve_zero_page_indexed(bytes, self.registers.y)
      [] mode = "Absolute"    ->
            Bind(resolve_absolute(bytes), LAMBDA address :
            Ok(Some(Location_Address(address))))
      [] mode = "AbsoluteX"   -> resolve_absolute_indexed(bytes, self.registers.x)
      [] mode = "AbsoluteY"   -> resolve_absolute_indexed(bytes, self.registers.y)
      [] mode = "Indirect"    -> resolve_indirect(self, bytes)
      [] mode = "IndirectX"   -> resolve_indirect_x(self, bytes)
      [] mode = "IndirectY"   -> resolve_indirect_y(self, bytes)

\* the match of resolve_address_by_mode on the Option<Location>
address_of(location) ==
    IF ~IsSome(location) THEN Err(MSG_NO_LOCATION)
    ELSE IF Unwrapped(location).kind = "Address" THEN Ok(Unwrapped(location).address)
    ELSE Err(MSG_NO_ADDRESS)

\* Cpu::resolve_address_by_mode -> Result<Address>
resolve_address_by_mode(self, mode, bytes) ==
    Bind(resolve_location_by_mode(self, mode, bytes), address_of)

\* Cpu::determine_input_byte_from_address -> Result<u8>
determine_input_byte_from_address(self, mode, bytes) ==
    Bind(resolve_address_by_mode(self, mode, bytes), LAMBDA address :
    Ok(read(self.bus, address)))

\* the Accumulator arm as the Implied arm is
input_byte_accumulator_none == Ok(None)

\* the Accumulator arm of determine_input_byte
input_byte_accumulator == Err(MSG_INPUT_ACCUMULATOR)

\* Cpu::determine_input_byte -> Result<Option<u8>>
determine_input_byte(self, mode, bytes) ==
    CASE mode = "Implied"     -> Ok(None)
      [] mode = "Accumulator" -> input_byte_accumulator
      [] mode = "Immediate"   -> Bind(index(bytes, 0), LAMBDA b0 : Ok(Some(b0)))
      [] mode = "Relative"    -> Err(MSG_INPUT_RELATIVE)
      [] OTHER                ->
            Bind(determine_input_byte_from_address(self, mode, bytes),
                 LAMBDA input : Ok(Some(input)))

----------------------------------------------------------------------------
(* mod.rs: the operations *)

\* is_carry with `<=` for `<`
is_carry_le(input, value_new) == value_new <= input

is_carry(input, value_new) == value_new < input

has_overflown(value_old, value_new) == read_bit(value_old, 7) /= read_bit(value_new, 7)

is_negative(value) == is_bit_set(value, 7)

\* the sum of run_adc: a.wrapping_add(input).wrapping_add(carry)
adc_sum(r, input) == wrapping_add(wrapping_add(r.a, input), and_bits(r.p, CARRY))

\* adc_flags building the flags from StatusFlags::empty()
adc_flags_fresh(p, a_old, input, a_new) ==
    set(set(set(set(StatusFlags_empty, CARRY, is_carry(input, a_new)),
                ZERO, a_new = 0),
            OVERFLOW, has_overflown(a_old, a_new)),
        NEGATIVE, is_negative(a_new))

\* the four p.set(..) of run_adc, in the source's order
adc_flags(p, a_old, input, a_new) ==
    set(set(set(set(p, CARRY, is_carry(input, a_new)),
                ZERO, a_new = 0),
            OVERFLOW, has_overflown(a_old, a_new)),
        NEGATIVE, is_negative(a_new))

\* Cpu::run_adc(&mut self, input): the registers it leaves
run_adc(r, input) ==
    [r EXCEPT !.a = adc_sum(r, input),
              !.p = adc_flags(r.p, r.a, input, adc_sum(r, input))]

\* run_jmp adding the address to the pc
run_jmp_relative(r, address) == [r EXCEPT !.pc = (r.pc + address) % U16]

\* Cpu::run_jmp(&mut self, address): the registers it leaves
run_jmp(r, address) == [r EXCEPT !.pc = address]

Unit == <<>>

\* a &mut self method's outcome: the registers it leaves and what it returns
Outcome(r, res) == [registers |-> r, result |-> res]

\* `?` in a &mut self method: on Ok go on with the value, else return as the registers are
Try(self, r, F(_)) == IF IsOk(r) THEN F(r.val) ELSE Outcome(self.registers, r)

\* the `_ => unimplemented!()` arm of run_instruction
run_unimplemented(self) == Outcome(self.registers, Panic(MSG_NOT_IMPLEMENTED))

\* the Adc arm: determine_input_byte(..)?.unwrap(), then run_adc
adc_unwrap(self, input) ==
    IF IsSome(input) THEN Outcome(run_adc(self.registers, Unwrapped(input)), Ok(Unit))
    ELSE Outcome(self.registers, Panic(MSG_UNWRAP_NONE))

\* Cpu::run_instruction(&mut self, instruction, bytes) -> Result
run_instruction(self, instruction, bytes) ==
    CASE instruction.operation = "Adc" ->
            Try(self, determine_input_byte(self, instruction.mode, bytes),
                LAMBDA input : adc_unwrap(self, input))
      [] instruction.operation = "Jmp" ->
            Try(self, resolve_address_by_mode(self, instruction.mode, bytes),
                LAMBDA address : Outcome(run_jmp(self.registers, address), Ok(Unit)))
      [] OTHER -> run_unimplemented(self)

\* advance_pc leaving the pc where it is
advance_pc_none(pc) == Ok(pc)

\* `self.registers.pc += 1`, to account for the opcode
advance_pc(pc) == add_u16(pc, 1)

\* the Cpu with its pc set
at_pc(self, pc) == [self EXCEPT !.registers.pc = pc]

\* operand_bytes reading before the pc is advanced: from the opcode's address
operand_bytes_at_opcode(self, instruction) ==
    read_n(self.bus, (self.registers.pc - 1) % U16, instruction.len - 1)

\* the operand bytes process_instruction reads: bus.read_n(pc, len - 1) at the advanced pc
operand_bytes(self, instruction) ==
    read_n(self.bus, self.registers.pc, instruction.len - 1)

\* process_instruction after the pc is advanced
process_operands(self, instruction) ==
    run_instruction(self, instruction, operand_bytes(self, instruction))

\* Cpu::process_instruction(&mut self, instruction) -> Result
process_instruction(self, instruction) ==
    Try(self, advance_pc(self.registers.pc),
        LAMBDA pc : process_operands(at_pc(self, pc), instruction))

\* the loop's test: pc + len < ADDRESS_NMI
next_in_bounds(pc, instruction) ==
    Bind(add_u16(pc, instruction.len), LAMBDA next :
    IF next < ADDRESS_NMI THEN Ok(Some(instruction)) ELSE Ok(None))

\* Cpu::determine_instruction_next(&self) -> Result<Option<Instruction>>
determine_instruction_next(self) ==
    Bind(from_opcode(read(self.bus, self.registers.pc)), LAMBDA instruction :
    next_in_bounds(self.registers.pc, instruction))

\* the VectorSet of Cpu::new
read_vectors(b) ==
    Bind(read_u16(b, ADDRESS_NMI), LAMBDA nmi :
    Bind(read_u16(b, ADDRESS_RESET), LAMBDA reset :
    Bind(read_u16(b, ADDRESS_IRQ), LAMBDA irq :
    Ok([nmi |-> nmi, reset |-> reset, irq |-> irq]))))

\* Cpu::new leaving the pc of RegisterSet::new()
Cpu_new_pc_zero(b) ==
    Bind(read_vectors(b), LAMBDA v : Ok(Cpu(b, RegisterSet_new, v)))

\* Cpu::new(bus) -> Result<Self>
Cpu_new(b) ==
    Bind(read_vectors(b), LAMBDA v :
    Ok(Cpu(b, [RegisterSet_new EXCEPT !.pc = v.reset], v)))

----------------------------------------------------------------------------
(* The values the model draws *)

\* bytes near 0x00, 0x80 and 0xFF
Samples ==
    (0 .. SampleWidth) \cup ((128 - SampleWidth) .. (128 + SampleWidth))
        \cup ((255 - SampleWidth) .. 255)

\* high operand bytes
HighSamples == {0, 128, 255}

\* flag bytes: none, Carry alone, all but Carry, all
FlagSamples == {0, CARRY, 254, 255}

\* reset vectors: 0x8000, and the addresses around the vector region
ResetSamples == {32768, 65527, 65528, 65529, 65530, 65534, 65535}

\* program bytes: ADC #, NOP, LDA abs, and 0x05, which is no opcode of the table
ProgramBytes == {ADC_IMMEDIATE, NOP_IMPLIED, LDA_ABSOLUTE, 5}

Programs == [1 .. MaxProg -> ProgramBytes]

VectorCells == ADDRESS_NMI .. (U16 - 1)

\* a memory image: the reset vector, little-endian, at ADDRESS_RESET, and prog at reset
Image(reset, prog) ==
    LET cells == VectorCells \cup {c \in reset .. (reset + MaxProg - 1) : c < U16} IN
    [c \in cells |->
        IF c = ADDRESS_RESET THEN reset % 256
        ELSE IF c = ADDRESS_RESET + 1 THEN reset \div 256
        ELSE IF c >= reset /\ c < reset + MaxProg THEN prog[c - reset + 1]
        ELSE Fill]

Images == {Image(reset, prog) : reset \in ResetSamples, prog \in Programs}

\* the memory of the unit calls: cells of page 0 and the cell after it. The
\* cell at 1 holds 0x80 and the cell at 2 holds 0x00 (the operand bytes of an
\* instruction at pc 0), the cells at 0xFE and 0xFF hold 0xFF (a pointer to
\* 0xFFFF), the cell at 0x100 holds 0x12, and the others 3 * address + 1.
UnitImage ==
    [c \in Samples \cup {2, 256} |->
        CASE c = 1            -> 128
          [] c = 2            -> 0
          [] c \in {254, 255} -> 255
          [] c = 256          -> 18
          [] OTHER            -> (3 * c + 1) % 256]
UnitBus == [mem |-> UnitImage, bad |-> {128}]

\* operand slices of 0, 1 and 2 bytes
OperandSamples ==
    {<<>>} \cup {<<lo>> : lo \in Samples}
        \cup {<<lo, hi>> : lo \in Samples, hi \in HighSamples}
        \cup {<<0, 144>>}

\* program counters of the unit calls other than 0: 0x8000 and the last address
PcSamples == {32768, 65535}

\* flag bytes around the two break bits: one, both, all but one, all but both
BreakSamples ==
    {BREAK_LEFT, BREAK_RIGHT, BREAK_LEFT + BREAK_RIGHT,
     255 - BREAK_LEFT, 255 - BREAK_RIGHT, 255 - BREAK_LEFT - BREAK_RIGHT}

\* registers of the unit calls: a and p preset, or x preset, or y preset, or
\* p preset around the break bits, or every register preset to a value of its own
RegisterSamples ==
    {[RegisterSet_new EXCEPT !.a = v, !.p = f] : v \in Samples, f \in FlagSamples}
        \cup {[RegisterSet_new EXCEPT !.x = v] : v \in Samples}
        \cup {[RegisterSet_new EXCEPT !.y = v] : v \in Samples}
        \cup {[RegisterSet_new EXCEPT !.p = f] : f \in BreakSamples}
        \cup {[a |-> 129, x |-> 1, y |-> 254, s |-> 253, p |-> f, pc |-> v] :
                    f \in {StatusFlags_empty, 255}, v \in PcSamples}

NoVectors == [nmi |-> 0, reset |-> 0, irq |-> 0]

----------------------------------------------------------------------------
(* The record of the last call *)

Call(fn, r, instruction, mode, bytes, input) ==
    [fn |-> fn, registers |-> r, instruction |-> instruction, mode |-> mode,
     bytes |-> bytes, input |-> input]

NoCall == Call("", RegisterSet_new, None, "", <<>>, 0)

Self == Cpu(bus, registers, vectors)

\* the operand bytes a call of process_instruction hands to run_instruction
BytesRead(self, instruction) ==
    IF IsOk(advance_pc(self.registers.pc))
    THEN operand_bytes(at_pc(self, advance_pc(self.registers.pc).val), instruction)
    ELSE <<>>

\* where start() stands after a call that returned res
StateAfter(res) ==
    CASE res.tag = "Panic" -> "Panicked"
      [] res.tag = "Err"   -> "Failed"
      [] OTHER             -> "Running"

----------------------------------------------------------------------------
(* Spec: Cpu::new over an image, then Cpu::start *)

Init ==
    /\ bus \in [mem : Images, bad : {{}, {ADDRESS_IRQ}}]
    /\ registers = RegisterSet_new
    /\ vectors = NoVectors
    /\ state = "Unconstructed"
    /\ fetched = None
    /\ overflow_checks \in BOOLEAN
    /\ call = NoCall
    /\ result = Ok(Unit)

\* Cpu::new(bus)
New ==
    /\ state = "Unconstructed"
    /\ result' = Bind(Cpu_new(bus), LAMBDA cpu : Ok(Unit))
    /\ registers' = IF IsOk(result') THEN Cpu_new(bus).val.registers ELSE registers
    /\ vectors' = IF IsOk(result') THEN Cpu_new(bus).val.vectors ELSE vectors
    /\ state' = StateAfter(result')
    /\ call' = Call("new", registers, None, "", <<>>, 0)
    /\ UNCHANGED <<bus, fetched, overflow_checks>>

\* a test fixture presets the accumulator and the flags of the new Cpu
Preset(a, p) ==
    /\ state = "Running"
    /\ call.fn = "new"
    /\ registers' = [registers EXCEPT !.a = a, !.p = p]
    /\ call' = Call("preset", registers, None, "", <<>>, 0)
    /\ UNCHANGED <<bus, vectors, state, fetched, overflow_checks, result>>

\* start(): the loop's condition, self.determine_instruction_next()?
DetermineInstructionNext ==
    /\ state = "Running"
    /\ ~IsSome(fetched)
    /\ result' = determine_instruction_next(Self)
    /\ fetched' = IF IsOk(result') THEN result'.val ELSE None
    /\ state' = IF IsOk(result') /\ ~IsSome(result'.val) THEN "Halted"
                ELSE StateAfter(result')
    /\ call' = Call("determine_instruction_next", registers, None, "", <<>>, 0)
    /\ UNCHANGED <<bus, registers, vectors, overflow_checks>>

\* start(): the loop's body, self.process_instruction(instruction)?
ProcessInstruction ==
    /\ state = "Running"
    /\ IsSome(fetched)
    /\ result' = process_instruction(Self, Unwrapped(fetched)).result
    /\ registers' = process_instruction(Self, Unwrapped(fetched)).registers
    /\ state' = StateAfter(result')
    /\ call' = Call("process_instruction", registers, fetched, Unwrapped(fetched).mode,
                    BytesRead(Self, Unwrapped(fetched)), 0)
    /\ fetched' = None
    /\ UNCHANGED <<bus, vectors, overflow_checks>>

Next ==
    \/ New
    \/ \E a \in Samples, p \in {0, CARRY} : Preset(a, p)
    \/ DetermineInstructionNext
    \/ ProcessInstruction

Spec == Init /\ [][Next]_vars

\* start() is a plain sequential loop on one thread: while the program has a
\* next step it takes it
SpecLive == Spec /\ WF_vars(Next)

----------------------------------------------------------------------------
(* SpecUnit: one call of a method of a Cpu with sampled registers *)

InitUnit ==
    /\ bus = UnitBus
    /\ registers \in RegisterSamples
    /\ vectors = NoVectors
    /\ state = "Running"
    /\ fetched = None
    /\ overflow_checks \in BOOLEAN
    /\ call = NoCall
    /\ result = Ok(Unit)

\* self.run_adc(input)
RunAdc(input) ==
    /\ call.fn = ""
    /\ registers' = run_adc(registers, input)
    /\ call' = Call("run_adc", registers, None, "", <<>>, input)
    /\ result' = Ok(Unit)
    /\ UNCHANGED <<bus, vectors, state, fetched, overflow_checks>>

\* self.determine_input_byte(mode, bytes)
DetermineInputByte(mode, bytes) ==
    /\ call.fn = ""
    /\ result' = determine_input_byte(Self, mode, bytes)
    /\ state' = StateAfter(result')
    /\ call' = Call("determine_input_byte", registers, None, mode, bytes, 0)
    /\ UNCHANGED <<bus, registers, vectors, fetched, overflow_checks>>

\* self.resolve_location_by_mode(mode, bytes)
ResolveLocationByMode(mode, bytes) ==
    /\ call.fn = ""
    /\ result' = resolve_location_by_mode(Self, mode, bytes)
    /\ state' = StateAfter(result')
    /\ call' = Call("resolve_location_by_mode", registers, None, mode, bytes, 0)
    /\ UNCHANGED <<bus, registers, vectors, fetched, overflow_checks>>

\* self.resolve_address_by_mode(mode, bytes)
ResolveAddressByMode(mode, bytes) ==
    /\ call.fn = ""
    /\ result' = resolve_address_by_mode(Self, mode, bytes)
    /\ state' = StateAfter(result')
    /\ call' = Call("resolve_address_by_mode", registers, None, mode, bytes, 0)
    /\ UNCHANGED <<bus, registers, vectors, fetched, overflow_checks>>

\* self.run_instruction(instruction, &bytes)
RunInstruction(instruction, bytes) ==
    /\ call.fn = ""
    /\ result' = run_instruction(Self, instruction, bytes).result
    /\ registers' = run_instruction(Self, instruction, bytes).registers
    /\ state' = StateAfter(result')
    /\ call' = Call("run_instruction", registers, Some(instruction), instruction.mode,
                    bytes, 0)
    /\ UNCHANGED <<bus, vectors, fetched, overflow_checks>>

\* self.process_instruction(instruction), as the body of start() calls it
ProcessInstructionOf(instruction) ==
    /\ call.fn = ""
    /\ result' = process_instruction(Self, instruction).result
    /\ registers' = process_instruction(Self, instruction).registers
    /\ state' = StateAfter(result')
    /\ call' = Call("process_instruction", registers, Some(instruction),
                    instruction.mode, BytesRead(Self, instruction), 0)
    /\ UNCHANGED <<bus, vectors, fetched, overflow_checks>>

\* self.registers.p.set_break(break_type); call.mode records the break type
SetBreak(break_type) ==
    /\ call.fn = ""
    /\ registers' = [registers EXCEPT !.p = set_break(registers.p, break_type)]
    /\ call' = Call("set_break", registers, None, break_type, <<>>, 0)
    /\ result' = Ok(Unit)
    /\ UNCHANGED <<bus, vectors, state, fetched, overflow_checks>>

\* self.registers.p.clear_break()
ClearBreak ==
    /\ call.fn = ""
    /\ registers' = [registers EXCEPT !.p = clear_break(registers.p)]
    /\ call' = Call("clear_break", registers, None, "", <<>>, 0)
    /\ result' = Ok(Unit)
    /\ UNCHANGED <<bus, vectors, state, fetched, overflow_checks>>

\* the instructions handed to the unit calls of run_instruction and
\* process_instruction: Adc and Jmp, which no opcode of the table gives in
\* every mode
UnitOperations == {"Adc", "Jmp"}

\* the modes of the unit calls of run_instruction
UnitModes == {"Immediate", "Absolute", "Indirect"}

UnitInstruction(operation, mode, len) == Instruction(0, operation, mode, len, 2)

NextUnit ==
    \/ \E input \in Byte : RunAdc(input)
    \/ \E mode \in InstructionMode, bytes \in OperandSamples :
            DetermineInputByte(mode, bytes)
    \/ \E mode \in InstructionMode, bytes \in OperandSamples :
            ResolveLocationByMode(mode, bytes)
    \/ \E mode \in InstructionMode, bytes \in OperandSamples :
            ResolveAddressByMode(mode, bytes)
    \/ \E operation \in UnitOperations, mode \in UnitModes, bytes \in OperandSamples :
            RunInstruction(UnitInstruction(operation, mode, Len(bytes) + 1), bytes)
    \/ \E operation \in UnitOperations, mode \in InstructionMode, len \in 1 .. 3 :
            ProcessInstructionOf(UnitInstruction(operation, mode, len))
    \/ \E break_type \in BreakType : SetBreak(break_type)
    \/ ClearBreak

SpecUnit == InitUnit /\ [][NextUnit]_vars

----------------------------------------------------------------------------
(* SpecDecode: Cpu::new and Cpu::start over every opcode byte at 0x8000 *)

\* the images with the reset vector 0x8000, one opcode byte there and 0x80 after it
DecodeImages ==
    {Image(32768, [i \in 1 .. MaxProg |-> IF i = 1 THEN opcode ELSE 128]) :
        opcode \in Byte}

InitDecode ==
    /\ bus \in [mem : DecodeImages, bad : {{}}]
    /\ registers = RegisterSet_new
    /\ vectors = NoVectors
    /\ state = "Unconstructed"
    /\ fetched = None
    /\ overflow_checks \in BOOLEAN
    /\ call = NoCall
    /\ result = Ok(Unit)

NextDecode ==
    \/ New
    \/ DetermineInstructionNext
    \/ ProcessInstruction

SpecDecode == InitDecode /\ [][NextDecode]_vars

----------------------------------------------------------------------------
(* What the claims read off the last call *)

\* the carry-in of the call: Carry of the registers at its entry, as 0 or 1
CarryIn == IF contains(call.registers.p, CARRY) THEN 1 ELSE 0

Bit7(value) == value >= 128

\* the instruction the call was handed
CalledInstruction == Unwrapped(call.instruction)

\* the opcode byte at the pc of the call's entry
OpcodeAtEntry == read(bus, call.registers.pc)

\* the registers other than pc are as at the call's entry
DataRegistersKept ==
    /\ registers.a = call.registers.a
    /\ registers.x = call.registers.x
    /\ registers.y = call.registers.y
    /\ registers.s = call.registers.s
    /\ registers.p = call.registers.p

\* the call resolved an indexed mode with at least the bytes the mode reads
ResolvedIndexed(modeX, modeY, n) ==
    /\ call.fn = "resolve_location_by_mode"
    /\ call.mode \in {modeX, modeY}
    /\ Len(call.bytes) >= n

\* the index register the mode of the call adds
IndexRegister(modeX) ==
    IF call.mode = modeX THEN call.registers.x ELSE call.registers.y

----------------------------------------------------------------------------
(* C1..C10 *)

\* C1: after run_adc the accumulator is (a + i + c) mod 256, Carry is set iff
\* result < i, Zero iff result = 0, Negative is bit 7 of the result, and
\* Overflow is set iff bit 7 of a differs from bit 7 of the result.
C1_AdcContract ==
    call.fn = "run_adc" =>
        /\ registers.a = (call.registers.a + call.input + CarryIn) % 256
        /\ contains(registers.p, CARRY) <=> (registers.a < call.input)
        /\ contains(registers.p, ZERO) <=> (registers.a = 0)
        /\ contains(registers.p, NEGATIVE) <=> Bit7(registers.a)
        /\ contains(registers.p, OVERFLOW) <=> (Bit7(call.registers.a) /= Bit7(registers.a))

\* C1's case: an ADC with carry-in whose sum passes 255
C1_Witness ==
    /\ call.fn = "run_adc"
    /\ CarryIn = 1
    /\ call.registers.a + call.input + CarryIn > 255
    /\ registers.a = (call.registers.a + call.input + 1) % 256

\* C2: one step over ADC #$05 at the reset vector 0x8000 with A = 0x01 and
\* Carry clear leaves A = 0x06, Carry, Zero, Overflow and Negative clear, and
\* PC = 0x8002, past the whole two-byte instruction.
C2_AdcImmediateStep ==
    (/\ call.fn = "process_instruction"
     /\ vectors.reset = 32768
     /\ call.registers.pc = 32768
     /\ read(bus, 32768) = ADC_IMMEDIATE
     /\ read(bus, 32769) = 5
     /\ call.registers.a = 1
     /\ ~contains(call.registers.p, CARRY))
    => /\ registers.a = 6
       /\ ~contains(registers.p, CARRY)
       /\ ~contains(registers.p, ZERO)
       /\ ~contains(registers.p, OVERFLOW)
       /\ ~contains(registers.p, NEGATIVE)
       /\ registers.pc = 32770
       /\ registers.pc = call.registers.pc + CalledInstruction.len

\* C3: ADC with A = 0xFF, input 0x01 and Carry clear yields A = 0x00 with
\* Carry set, Zero set, Negative clear and Overflow clear.
C3_AdcFFPlusOne ==
    (/\ call.fn = "run_adc"
     /\ call.registers.a = 255
     /\ call.input = 1
     /\ CarryIn = 0)
    => /\ registers.a = 0
       /\ contains(registers.p, CARRY)
       /\ contains(registers.p, ZERO)
       /\ ~contains(registers.p, NEGATIVE)
       /\ ~contains(registers.p, OVERFLOW)

\* C4: decoding an opcode byte the table has no entry for gives a
\* decode-failure error that start() returns to its caller; it never panics.
C4_UnknownOpcodeIsError ==
    (/\ call.fn = "determine_instruction_next"
     /\ OpcodeAtEntry \notin KnownOpcodes)
    => /\ result.tag = "Err"
       /\ state = "Failed"

\* C5: executing an instruction whose operation is neither ADC nor JMP ends
\* in an 'operation not implemented' error, distinguishable from a decode
\* failure; it is never a panic, never a silent no-op, and A, X, Y, S and the
\* flags are as before.
C5_UnimplementedIsError ==
    (/\ call.fn = "process_instruction"
     /\ CalledInstruction.operation \notin {"Adc", "Jmp"})
    => /\ result.tag = "Err"
       /\ state = "Failed"
       /\ result.msg /= MSG_NO_INSTRUCTION
       /\ DataRegistersKept

\* C6: determine_input_byte under Accumulator mode returns the
\* invalid-addressing error for every operand slice and every register
\* state, and leaves every register and flag as it was.
C6_AccumulatorInputIsError ==
    (/\ call.fn = "determine_input_byte"
     /\ call.mode = "Accumulator")
    => /\ result.tag = "Err"
       /\ result.msg = MSG_INPUT_ACCUMULATOR
       /\ state = "Failed"
       /\ registers = call.registers

\* C6's case: the byte input asked under Accumulator mode, with an operand
\* byte at hand and the accumulator and flags set
C6_Witness ==
    /\ call.fn = "determine_input_byte"
    /\ call.mode = "Accumulator"
    /\ Len(call.bytes) = 1
    /\ call.registers.a = 255
    /\ call.registers.p = 255
    /\ result.tag = "Err"

\* C7: resolve_location_by_mode and resolve_address_by_mode under Relative
\* mode return an invalid-addressing error in every call, never a panic.
C7_RelativeLocationIsError ==
    (/\ call.fn \in {"resolve_location_by_mode", "resolve_address_by_mode"}
     /\ call.mode = "Relative")
    => /\ result.tag = "Err"
       /\ state = "Failed"

\* C8: for every PC and every decoded instruction length, the loop goes to
\* Halted (start returns normally) as soon as PC + length is at or past
\* 0xFFFA, and the instruction at that PC is not executed.
C8_HaltsAtVectors ==
    (/\ call.fn = "determine_instruction_next"
     /\ OpcodeAtEntry \in KnownOpcodes
     /\ call.registers.pc + from_opcode(OpcodeAtEntry).val.len >= ADDRESS_NMI)
    => /\ state = "Halted"
       /\ result = Ok(None)
       /\ fetched = None

\* C9: under ZeroPageX / ZeroPageY the resolved address is (b + r) mod 256
\* for every operand byte b and index register r, and the resolution always
\* succeeds, also when b + r exceeds 255.
C9_ZeroPageIndexedWraps ==
    ResolvedIndexed("ZeroPageX", "ZeroPageY", 1)
    => /\ result.tag = "Ok"
       /\ result.val =
            Some(Location_Address((call.bytes[1] + IndexRegister("ZeroPageX")) % 256))

\* C10: under AbsoluteX / AbsoluteY the resolved address is
\* (lo + 256 * hi + r) mod 65536 for every operand pair and index register r;
\* a sum beyond 0xFFFF wraps and the resolution still succeeds.
C10_AbsoluteIndexedWraps ==
    ResolvedIndexed("AbsoluteX", "AbsoluteY", 2)
    => /\ result.tag = "Ok"
       /\ result.val =
            Some(Location_Address(
                (call.bytes[1] + 256 * call.bytes[2] + IndexRegister("AbsoluteX")) % 65536))

----------------------------------------------------------------------------
(* C11..C19 *)

\* the 16-bit little-endian value in the zero-page cells at pointer and,
\* within page 0, after it
ZeroPageWord(pointer) == read(bus, pointer) + 256 * read(bus, (pointer + 1) % 256)

\* the call resolved mode with its operand byte, and the bus read at pointer succeeds
ResolvedThrough(mode, pointer) ==
    /\ call.fn = "resolve_location_by_mode"
    /\ call.mode = mode
    /\ Len(call.bytes) >= 1
    /\ pointer \notin bus.bad

\* the zero-page pointer of IndirectX: (operand + X) mod 256
PointerX == (call.bytes[1] + call.registers.x) % 256

\* C11: IndirectX resolves to the 16-bit little-endian value at the zero-page
\* pointer (operand + X) mod 256, with no further indexing; IndirectY resolves
\* to the 16-bit sum of Y and the 16-bit little-endian value at the zero-page
\* pointer given by the operand byte itself.
C11_IndexedIndirect ==
    /\ ResolvedThrough("IndirectX", PointerX)
       => result = Ok(Some(Location_Address(ZeroPageWord(PointerX))))
    /\ ResolvedThrough("IndirectY", call.bytes[1])
       => result = Ok(Some(Location_Address(
              (ZeroPageWord(call.bytes[1]) + call.registers.y) % 65536)))

\* the call ran the instruction of this operation and mode on n operand bytes
RanInstruction(operation, mode, n) ==
    /\ call.fn = "run_instruction"
    /\ CalledInstruction.operation = operation
    /\ call.mode = mode
    /\ Len(call.bytes) = n

\* C12: JMP Absolute with the operand bytes (lo, hi) succeeds and leaves
\* PC = lo + 256 * hi whatever PC was before, with A, X, Y, S and all flags
\* as they were.
C12_JmpAbsolute ==
    RanInstruction("Jmp", "Absolute", 2)
    => /\ result = Ok(Unit)
       /\ registers.pc = call.bytes[1] + 256 * call.bytes[2]
       /\ DataRegistersKept

\* JMP Absolute with [0x00, 0x90] ran from PC = 0xFFFF with all flags set
C12_Witness ==
    /\ RanInstruction("Jmp", "Absolute", 2)
    /\ call.bytes = <<0, 144>>
    /\ call.registers.pc = 65535
    /\ call.registers.p = 255
    /\ registers.pc = 36864

\* the 16-bit little-endian value in the cells at address and after it
WordAt(address) == read(bus, address) + 256 * read(bus, address + 1)

\* Cpu::new has returned a Cpu
Constructed == state /= "Unconstructed" /\ ~(call.fn = "new" /\ ~IsOk(result))

\* C13: as Cpu::new returns, PC is the reset vector, S is 0xFF, A, X and Y are
\* 0 and all flags are clear; then and in every later state the vector set
\* holds the 16-bit little-endian values of the cells at 0xFFFA, 0xFFFC and
\* 0xFFFE as they were at construction.
C13_Construction ==
    /\ Constructed
       => vectors = [nmi |-> WordAt(65530), reset |-> WordAt(65532), irq |-> WordAt(65534)]
    /\ (call.fn = "new" /\ IsOk(result))
       => registers = [a |-> 0, x |-> 0, y |-> 0, s |-> 255, p |-> 0, pc |-> vectors.reset]

\* Cpu::new returned a Cpu with the reset vector 0xFFF9 and the NMI vector
\* bytes 0x69, 0x05, and the loop has since stopped at the vector region
C13_Witness ==
    /\ Constructed
    /\ state = "Halted"
    /\ registers = [a |-> 0, x |-> 0, y |-> 0, s |-> 255, p |-> 0, pc |-> 65529]
    /\ vectors.reset = 65529
    /\ vectors.nmi = 105 + 256 * 5

\* the bytes in the n cells after the opcode of the call
BytesAfterOpcode(n) == [i \in 1 .. n |-> read(bus, (call.registers.pc + i) % 65536)]

\* C14: a step reads the opcode at PC and decodes it with PC where it was;
\* process_instruction then advances PC by exactly 1 (in 16 bits) and reads
\* the length - 1 operand bytes from the new PC on without advancing PC past
\* them, so the instruction runs and leaves PC = opcode address + 1 for every
\* length of a decodable instruction.
C14_StepOrder ==
    /\ call.fn = "determine_instruction_next"
       => /\ registers.pc = call.registers.pc
          /\ IsSome(fetched) => Unwrapped(fetched).opcode = OpcodeAtEntry
    /\ call.fn = "process_instruction"
       => /\ CalledInstruction.opcode = OpcodeAtEntry
          /\ call.bytes = BytesAfterOpcode(CalledInstruction.len - 1)
          /\ registers.pc = (call.registers.pc + 1) % 65536

\* a three-byte instruction was processed: two operand bytes read, PC one past the opcode
C14_Witness ==
    /\ call.fn = "process_instruction"
    /\ CalledInstruction.len = 3
    /\ call.bytes = <<105, 5>>
    /\ registers.pc = 32769

\* bit n of a flag byte is set
FlagBit(p, n) == (p \div (2 ^ n)) % 2 = 1

\* BreakLeft (bit 5) and BreakRight (bit 4) of the flags are as given, and the
\* other six flags are as at the call's entry
BreakBitsAre(left, right) ==
    /\ FlagBit(registers.p, 5) = left
    /\ FlagBit(registers.p, 4) = right
    /\ \A n \in {0, 1, 2, 3, 6, 7} : FlagBit(registers.p, n) = FlagBit(call.registers.p, n)

\* C15: from any flag state, set_break(Internal) leaves BreakLeft and
\* BreakRight both set, set_break(Instruction) leaves BreakLeft set and
\* BreakRight clear, and clear_break leaves both clear; the other six flags
\* are unchanged by each.
C15_BreakFlags ==
    /\ (call.fn = "set_break" /\ call.mode = "Internal") => BreakBitsAre(TRUE, TRUE)
    /\ (call.fn = "set_break" /\ call.mode = "Instruction") => BreakBitsAre(TRUE, FALSE)
    /\ call.fn = "clear_break" => BreakBitsAre(FALSE, FALSE)

\* set_break(Instruction) ran on flags with BreakRight set and BreakLeft clear
C15_Witness ==
    /\ call.fn = "set_break"
    /\ call.mode = "Instruction"
    /\ call.registers.p = 255 - 32
    /\ registers.p = 255 - 16

\* the address the indirect mode of the call reads its pointer at, from the
\* operand bytes the call read and the registers at its entry
IndirectPointer ==
    CASE call.mode = "Indirect"  -> call.bytes[1] + 256 * call.bytes[2]
      [] call.mode = "IndirectX" -> (call.bytes[1] + call.registers.x) % 256
      [] call.mode = "IndirectY" -> call.bytes[1]

\* the operand bytes the indirect mode of the call reads
IndirectOperands == IF call.mode = "Indirect" THEN 2 ELSE 1

\* process_instruction ran an instruction of an indirect mode, read the
\* operand bytes the mode needs, and the bus read at the pointer fails
IndirectReadFailed ==
    /\ call.fn = "process_instruction"
    /\ call.mode \in {"Indirect", "IndirectX", "IndirectY"}
    /\ CalledInstruction.operation \in {"Adc", "Jmp"}
    /\ Len(call.bytes) >= IndirectOperands
    /\ IndirectPointer \in bus.bad

\* C16: when the bus read of an Indirect, IndirectX or IndirectY resolution
\* fails, process_instruction returns that error, start() returns it and takes
\* no further step, and the registers are as at the failure: PC one past the
\* opcode byte, A, X, Y, S and the flags as at the step's entry.
C16_BusFailurePropagates ==
    IndirectReadFailed
    => /\ result = Err(MSG_BUS)
       /\ state = "Failed"
       /\ ~ENABLED DetermineInstructionNext
       /\ ~ENABLED ProcessInstruction
       /\ registers.pc = call.registers.pc + 1
       /\ DataRegistersKept

\* JMP (Indirect) at PC 0 read the operand bytes 0x80, 0x00 and the read at 0x0080 failed
C16_Witness ==
    /\ IndirectReadFailed
    /\ CalledInstruction.operation = "Jmp"
    /\ call.mode = "Indirect"
    /\ call.bytes = <<128, 0>>
    /\ registers.pc = 1

\* the length the claim gives a mode of the decoder's table, 0 for the other modes
ModeLength(mode) ==
    CASE mode \in {"Implied", "Accumulator"}            -> 1
      [] mode \in {"Immediate", "ZeroPage", "ZeroPageX"} -> 2
      [] mode = "Absolute"                               -> 3
      [] OTHER                                           -> 0

\* the Cpu as it was at the call's entry
CalledSelf == Cpu(bus, call.registers, vectors)

\* C17: every instruction the decoder returns has a length in 1..3 that is
\* the length of its mode (Implied, Accumulator: 1; Immediate, ZeroPage,
\* ZeroPageX: 2; Absolute: 3), so the length - 1 operand bytes handed to
\* execution are enough for the mode: neither the input rule nor the location
\* rule of the mode, nor the step itself, indexes a byte that was not read.
C17_OperandBytesSuffice ==
    /\ (call.fn = "determine_instruction_next" /\ IsSome(fetched))
       => /\ Unwrapped(fetched).len \in 1 .. 3
          /\ Unwrapped(fetched).len = ModeLength(Unwrapped(fetched).mode)
    /\ call.fn = "process_instruction"
       => /\ Len(call.bytes) = ModeLength(call.mode) - 1
          /\ determine_input_byte(CalledSelf, call.mode, call.bytes).msg /= MSG_INDEX
          /\ resolve_location_by_mode(CalledSelf, call.mode, call.bytes).msg /= MSG_INDEX
          /\ result.msg /= MSG_INDEX

\* LDA Absolute (0xAD) was decoded with length 3 and handed two operand bytes
C17_Witness ==
    /\ call.fn = "process_instruction"
    /\ CalledInstruction.opcode = 173
    /\ CalledInstruction.mode = "Absolute"
    /\ Len(call.bytes) = 2

\* the steps left before PC reaches the vector region, counted in 16 bits
Rank == (65530 - registers.pc) % 65536

\* start() has returned or the program has crashed
Stopped == state \in {"Halted", "Failed", "Panicked"}

\* C18: every executed instruction leaves PC advanced by exactly 1 (in 16
\* bits) and, while the loop goes on, one step nearer the vector region; and
\* from every memory image and reset vector the loop eventually stops, halted
\* or with a failure.
C18_Terminates ==
    /\ [][(state = "Running" /\ IsSome(fetched))
            => /\ registers'.pc = (registers.pc + 1) % 65536
               /\ state' = "Running" => Rank' < Rank]_vars
    /\ <>Stopped

\* the loop executed ADC # at 0xFFF7 with the accumulator preset and halted at 0xFFF8
C18_Witness ==
    /\ state = "Halted"
    /\ vectors.reset = 65527
    /\ registers.pc = 65528
    /\ registers.a = 128 + 105

\* the call ran ADC to its end: run_adc itself, or run_instruction on an Adc
\* instruction that returned Ok
AdcRan ==
    \/ call.fn = "run_adc"
    \/ /\ call.fn = "run_instruction"
       /\ CalledInstruction.operation = "Adc"
       /\ IsOk(result)

\* the call ran ADC on an input byte the call itself names
AdcRanOn(input) ==
    \/ call.fn = "run_adc" /\ input = call.input
    \/ /\ AdcRan
       /\ call.fn = "run_instruction"
       /\ call.mode = "Immediate"
       /\ input = call.bytes[1]

\* C19: ADC leaves X, Y, S and PC and the flags InterruptDisable, Decimal,
\* BreakRight and BreakLeft (bits 2 to 5) as they were; the accumulator it
\* leaves is the binary sum a + input + carry in 8 bits whether Decimal is
\* set or not; and the memory behind the bus is as it was.
C19_AdcFrame ==
    /\ AdcRan
       => /\ registers.x = call.registers.x
          /\ registers.y = call.registers.y
          /\ registers.s = call.registers.s
          /\ registers.pc = call.registers.pc
          /\ \A n \in 2 .. 5 : FlagBit(registers.p, n) = FlagBit(call.registers.p, n)
          /\ bus = UnitBus
    /\ \A input \in Byte :
          AdcRanOn(input) => registers.a = (call.registers.a + input + CarryIn) % 256

\* ADC #0x7F ran with every register preset, Decimal and both break bits set
C19_Witness ==
    /\ AdcRanOn(127)
    /\ call.registers = [a |-> 129, x |-> 1, y |-> 254, s |-> 253, p |-> 255, pc |-> 65535]
    /\ registers.a = 1
    /\ registers.p = 255 - 128 - 2

====
